---- MODULE Spec2Model ----
(***************************************************************************)
(* Reminder scheduling and delivery engine of TaskManagerApp (src/main.py). *)
(*                                                                         *)
(* Two threads share the SQLite table `reminders` and `reminder_queue`:    *)
(*   - the scheduler thread runs check_reminders (a polling loop);         *)
(*   - the main thread runs process_reminder_queue on a wx.Timer tick,     *)
(*     the user's handlers on_add_reminder, on_edit_reminder and           *)
(*     on_complete_reminder, and on_close when the window is closed.       *)
(* Spec explores the two threads without the user's handlers, SpecUser     *)
(* with them, SpecEntry the table as the dialog and the scheduler fill it, *)
(* SpecCalc the function update_recurring_reminder on its own, SpecFair    *)
(* the two threads under fair scheduling of the scheduler thread.          *)
(* Texts (TEXT columns, strftime output) are sequences of character codes; *)
(* datetimes are records of calendar fields.                               *)
(***************************************************************************)
EXTENDS Integers, Sequences, FiniteSets, TLC

(***************************************************************************)
(* Bounds of the model.                                                    *)
(***************************************************************************)
\* number of passes of the scheduler's while loop that are explored
MaxCycles == 2
\* number of store errors (sqlite3 exceptions) injected in one behaviour
MaxErrors == 1
\* largest recurring_interval explored by the calculator specification
MaxInterval == 14
\* number of reminder handlers (add, edit, complete) the user starts
MaxUserOps == 2

(***************************************************************************)
(* Texts: "%Y-%m-%d %H:%M:%S" as a sequence of character codes.            *)
(***************************************************************************)
\* character code of the decimal digit d
Digit(d) == 48 + d

\* n printed with two digits ("%m", "%d", "%H", "%M", "%S")
Pad2(n) == <<Digit((n \div 10) % 10), Digit(n % 10)>>

\* n printed with four digits ("%Y", years 1000..9999)
Pad4(n) == <<Digit((n \div 1000) % 10), Digit((n \div 100) % 10),
             Digit((n \div 10) % 10), Digit(n % 10)>>

\* datetime.strftime("%Y-%m-%d %H:%M:%S")
Strftime(dt) ==
    Pad4(dt.year) \o <<45>> \o Pad2(dt.month) \o <<45>> \o Pad2(dt.day) \o <<32>>
    \o Pad2(dt.hour) \o <<58>> \o Pad2(dt.minute) \o <<58>> \o Pad2(dt.second)

\* value of the decimal digits s[from..to]
RECURSIVE Num(_, _, _)
Num(s, from, to) ==
    IF to < from THEN 0 ELSE Num(s, from, to - 1) * 10 + (s[to] - 48)

\* SQLite's BINARY collation on TEXT: a <= b (memcmp, then the shorter first)
TextLE(a, b) ==
    \/ a = b
    \/ \E i \in 1..Len(a) :
          /\ i <= Len(b)
          /\ a[i] < b[i]
          /\ \A j \in 1..(i - 1) : a[j] = b[j]
    \/ /\ Len(a) < Len(b)
       /\ \A j \in 1..Len(a) : a[j] = b[j]

(***************************************************************************)
(* The proleptic Gregorian calendar of Python's datetime.                  *)
(***************************************************************************)
IsLeap(y) == (y % 4 = 0) /\ ((y % 100 # 0) \/ (y % 400 = 0))

DaysInMonth(y, m) ==
    IF m = 2 THEN (IF IsLeap(y) THEN 29 ELSE 28)
    ELSE IF m \in {4, 6, 9, 11} THEN 30 ELSE 31

\* days of the non-leap year before the first of month m (_DAYS_BEFORE_MONTH)
DaysBeforeMonthTable(m) ==
    <<0, 31, 59, 90, 120, 151, 181, 212, 243, 273, 304, 334>>[m]

DaysBeforeMonth(y, m) ==
    DaysBeforeMonthTable(m) + (IF m > 2 /\ IsLeap(y) THEN 1 ELSE 0)

DaysBeforeYear(y) ==
    (y - 1) * 365 + ((y - 1) \div 4) - ((y - 1) \div 100) + ((y - 1) \div 400)

\* datetime.toordinal(): 0001-01-01 is day 1
Ymd2Ord(y, m, d) == DaysBeforeYear(y) + DaysBeforeMonth(y, m) + d

\* date.fromordinal(n), by the 400/100/4/1-year cycles
Ord2Ymd(ord) ==
    LET n0    == ord - 1
        n400  == n0 \div 146097
        r400  == n0 % 146097
        n100  == r400 \div 36524
        r100  == r400 % 36524
        n4    == r100 \div 1461
        r4    == r100 % 1461
        n1    == r4 \div 365
        n     == r4 % 365
        year  == n400 * 400 + 1 + n100 * 100 + n4 * 4 + n1
        leap  == n1 = 3 /\ (n4 # 24 \/ n100 = 3)
        m0    == (n + 50) \div 32
        p0    == DaysBeforeMonthTable(m0) + (IF m0 > 2 /\ leap THEN 1 ELSE 0)
        month == IF p0 > n THEN m0 - 1 ELSE m0
        dim   == IF month = 2 /\ leap THEN 29
                 ELSE IF month = 2 THEN 28
                 ELSE IF month \in {4, 6, 9, 11} THEN 30 ELSE 31
        prec  == IF p0 > n THEN p0 - dim ELSE p0
    IN  IF n1 = 4 \/ n100 = 4
        THEN [year |-> year - 1, month |-> 12, day |-> 31]
        ELSE [year |-> year, month |-> month, day |-> n - prec + 1]

DT(y, mo, d, h, mi, s) ==
    [year |-> y, month |-> mo, day |-> d, hour |-> h, minute |-> mi, second |-> s]

\* the outcome of an operation that raised an exception
RAISE == [raised |-> TRUE]

Raised(x) == x = RAISE

\* the fields accepted by the datetime constructor
ValidDT(dt) ==
    /\ dt.year \in 1..9999
    /\ dt.month \in 1..12
    /\ dt.day \in 1..DaysInMonth(dt.year, dt.month)
    /\ dt.hour \in 0..23
    /\ dt.minute \in 0..59
    /\ dt.second \in 0..59

\* datetime.strptime(s, "%Y-%m-%d %H:%M:%S"): ValueError on a text that is
\* not of that format or names no calendar date
Strptime(s) ==
    LET dt == DT(Num(s, 1, 4), Num(s, 6, 7), Num(s, 9, 10),
                 Num(s, 12, 13), Num(s, 15, 16), Num(s, 18, 19))
    IN  IF /\ Len(s) = 19
           /\ s[5] = 45 /\ s[8] = 45 /\ s[11] = 32 /\ s[14] = 58 /\ s[17] = 58
           /\ \A i \in {1, 2, 3, 4, 6, 7, 9, 10, 12, 13, 15, 16, 18, 19} :
                 s[i] \in 48..57
           /\ ValidDT(dt)
        THEN dt
        ELSE RAISE

\* datetime + timedelta(days, seconds): OverflowError outside 0001..9999
AddDelta(dt, days, seconds) ==
    LET secs == dt.hour * 3600 + dt.minute * 60 + dt.second + seconds
        ord  == Ymd2Ord(dt.year, dt.month, dt.day) + days + (secs \div 86400)
        rem  == secs % 86400
        ymd  == Ord2Ymd(ord)
    IN  IF ord > 0 /\ ord <= 3652059
        THEN DT(ymd.year, ymd.month, ymd.day,
                rem \div 3600, (rem % 3600) \div 60, rem % 60)
        ELSE RAISE

\* datetime.replace(year=y, month=m): ValueError when the day does not exist
Replace(dt, y, m) ==
    LET r == [dt EXCEPT !.year = y, !.month = m]
    IN  IF ValidDT(r) THEN r ELSE RAISE

(***************************************************************************)
(* Rows of the table `reminders` (CREATE TABLE, columns in SELECT * order).  *)
(* A nullable column holds <<>> for NULL and <<v>> for the value v.        *)
(***************************************************************************)
NULL == <<>>

Some(v) == <<v>>

\* Python truth of a column value used as a condition (`if reminder[3]:`)
Truthy(v) == v # 0

Units == {"minutes", "hours", "days", "weeks", "months"}

\* NewTimeFixed with timedelta(weeks=interval) taken for timedelta(days=interval)
NewTimeFixedWeekIsDay(remind_time, interval, unit) ==
    IF unit = "minutes" THEN AddDelta(remind_time, 0, interval * 60)
    ELSE IF unit = "hours" THEN AddDelta(remind_time, 0, interval * 3600)
    ELSE AddDelta(remind_time, interval, 0)

\* the new remind_time for the fixed-length units (timedelta arithmetic)
NewTimeFixed(remind_time, interval, unit) ==
    IF unit = "minutes" THEN AddDelta(remind_time, 0, interval * 60)
    ELSE IF unit = "hours" THEN AddDelta(remind_time, 0, interval * 3600)
    ELSE IF unit = "days" THEN AddDelta(remind_time, interval, 0)
    ELSE AddDelta(remind_time, 7 * interval, 0)

\* NewTimeMonths with the year carried from the 1-based month
NewTimeMonthsEarlyCarry(remind_time, interval) ==
    Replace(remind_time,
            remind_time.year + ((remind_time.month + interval) \div 12),
            ((remind_time.month + interval - 1) % 12) + 1)

\* the new remind_time for unit "months" (datetime.replace of year and month)
NewTimeMonths(remind_time, interval) ==
    Replace(remind_time,
            remind_time.year + ((remind_time.month + interval - 1) \div 12),
            ((remind_time.month + interval - 1) % 12) + 1)

\* update_recurring_reminder whose else branch raises instead of returning
update_recurring_reminder_ElseRaises(reminder) ==
    LET remind_time == Strptime(reminder.remind_time)
        unit        == reminder.recurring_unit
        known       == unit # NULL /\ unit[1] \in Units
        new_time    ==
            IF unit[1] = "months"
            THEN NewTimeMonths(remind_time, reminder.recurring_interval[1])
            ELSE NewTimeFixed(remind_time, reminder.recurring_interval[1], unit[1])
    IN  IF Raised(remind_time) THEN [kind |-> "raise"]
        ELSE IF ~known THEN [kind |-> "raise"]
        ELSE IF reminder.recurring_interval = NULL THEN [kind |-> "raise"]
        ELSE IF Raised(new_time) THEN [kind |-> "raise"]
        ELSE [kind |-> "execute", new_time |-> Strftime(new_time)]

\* update_recurring_reminder up to its cursor.execute:
\*   [kind |-> "raise"]    an exception leaves the function
\*   [kind |-> "return"]   the else branch: nothing is executed
\*   [kind |-> "execute"]  the UPDATE is issued with new_time as its parameter
update_recurring_reminder(reminder) ==
    LET remind_time == Strptime(reminder.remind_time)
        unit        == reminder.recurring_unit
        known       == unit # NULL /\ unit[1] \in Units
        new_time    ==
            IF unit[1] = "months"
            THEN NewTimeMonths(remind_time, reminder.recurring_interval[1])
            ELSE NewTimeFixed(remind_time, reminder.recurring_interval[1], unit[1])
    IN  IF Raised(remind_time) THEN [kind |-> "raise"]
        ELSE IF ~known THEN [kind |-> "return"]
        ELSE IF reminder.recurring_interval = NULL THEN [kind |-> "raise"]
        ELSE IF Raised(new_time) THEN [kind |-> "raise"]
        ELSE [kind |-> "execute", new_time |-> Strftime(new_time)]

(***************************************************************************)
(* State.                                                                  *)
(***************************************************************************)
VARIABLES
    db,               \* committed content of table reminders: id -> row
    reminder_queue,   \* self.reminder_queue (queue.Queue), oldest first
    reminder_active,  \* self.reminder_active
    timer_running,    \* self.timer is started
    reminders_list,   \* ids shown in self.reminders_list, top to bottom
    clk,              \* wall clock, in steps of ClockStep seconds after T0
    pc,               \* position of the scheduler thread in check_reminders
    now,              \* check_reminders: local `now`
    reminders,        \* check_reminders: local `reminders`
    idx,              \* check_reminders: position of the for loop in `reminders`
    pending,          \* uncommitted writes of the scheduler's connection: id -> row
    cpc,              \* position of the main thread in process_reminder_queue
    reminder,         \* process_reminder_queue: local `reminder`
    cycle,            \* number of passes of the while loop started so far
    errs,             \* number of store errors injected so far
    outcomes,         \* per pass: "running", "ok", "lookup" or "resolve" (failed there)
    pushLog,          \* every reminder_queue.put so far: [cycle, row]
    shown,            \* every show_reminder so far, in order
    calc,             \* the calculator specification: input and outcome
    upc,              \* position of the main thread in a reminder handler of the user
    reminder_id,      \* on_edit_reminder: local `reminder_id`
    ops,              \* number of reminder handlers the user has started so far
    completedByUser,  \* the ids on_complete_reminder has completed so far
    tickMark          \* the number of puts made when the running tick took its first item (else 0)

vars == <<db, reminder_queue, reminder_active, timer_running, reminders_list, clk,
          pc, now, reminders, idx, pending, cpc, reminder, cycle, errs, outcomes,
          pushLog, shown, calc, upc, reminder_id, ops, completedByUser,
          tickMark>>

schedVars == <<pc, now, reminders, idx, pending, cycle, outcomes, pushLog>>

mainVars == <<cpc, reminder, shown, reminders_list, timer_running, reminder_active,
              tickMark>>

userVars == <<upc, reminder_id, ops, completedByUser>>

Ids == {1, 2}

\* the instant the application is started at
T0 == DT(2024, 1, 31, 12, 0, 0)

\* seconds of one step of clk: the period of the scheduler (time.sleep(60))
ClockStep == 60

\* datetime.now() when the clock shows k
ClockAt(k) == AddDelta(T0, 0, k * ClockStep)

NoFn == [i \in {} |-> 0]

NoItem == [id |-> 0]

(***************************************************************************)
(* The store.                                                              *)
(***************************************************************************)
\* the rows a connection sees: the committed rows under its own writes
View(committed, writes) ==
    [i \in DOMAIN committed |->
        IF i \in DOMAIN writes THEN writes[i] ELSE committed[i]]

\* the ids of set S in ascending order (rowid order of a table scan)
RECURSIVE Ascending(_)
Ascending(S) ==
    IF S = {} THEN <<>>
    ELSE LET m == CHOOSE x \in S : \A y \in S : x <= y
         IN  <<m>> \o Ascending(S \ {m})

\* SelectDue with remind_time < ? in place of remind_time <= ?
SelectDueStrict(rows, t) ==
    LET due == {i \in DOMAIN rows :
                   /\ rows[i].is_completed = 0
                   /\ TextLE(rows[i].remind_time, t)
                   /\ rows[i].remind_time # t}
        ord == Ascending(due)
    IN  [k \in 1..Len(ord) |-> rows[ord[k]]]

\* SELECT * FROM reminders WHERE is_completed = 0 AND remind_time <= ?
SelectDue(rows, t) ==
    LET due == {i \in DOMAIN rows :
                   rows[i].is_completed = 0 /\ TextLE(rows[i].remind_time, t)}
        ord == Ascending(due)
    IN  [k \in 1..Len(ord) |-> rows[ord[k]]]

\* UPDATE reminders SET remind_time = t WHERE id = i, inside the transaction
UpdateRemindTime(committed, writes, i, t) ==
    IF i \in DOMAIN committed
    THEN [j \in DOMAIN writes \cup {i} |->
            IF j = i THEN [View(committed, writes)[i] EXCEPT !.remind_time = t]
            ELSE writes[j]]
    ELSE writes

\* UpdateCompleted without the WHERE clause: every row is completed
UpdateCompletedAll(committed, writes, i) ==
    [j \in DOMAIN committed |-> [View(committed, writes)[j] EXCEPT !.is_completed = 1]]

\* UPDATE reminders SET is_completed = 1 WHERE id = i, inside the transaction
UpdateCompleted(committed, writes, i) ==
    IF i \in DOMAIN committed
    THEN [j \in DOMAIN writes \cup {i} |->
            IF j = i THEN [View(committed, writes)[i] EXCEPT !.is_completed = 1]
            ELSE writes[j]]
    ELSE writes

\* the ids of S ordered by remind_time (ties in rowid order)
RECURSIVE OrderByRemindTime(_, _)
OrderByRemindTime(rows, S) ==
    IF S = {} THEN <<>>
    ELSE LET m == CHOOSE x \in S : \A y \in S :
                     \/ x = y
                     \/ rows[x].remind_time # rows[y].remind_time
                        /\ TextLE(rows[x].remind_time, rows[y].remind_time)
                     \/ rows[x].remind_time = rows[y].remind_time /\ x < y
         IN  <<m>> \o OrderByRemindTime(rows, S \ {m})

\* load_reminders: SELECT * FROM reminders WHERE is_completed = 0 ORDER BY remind_time
load_reminders(rows) ==
    OrderByRemindTime(rows, {i \in DOMAIN rows : rows[i].is_completed = 0})

(***************************************************************************)
(* Initial states: the table as earlier sessions of the application left   *)
(* it, the window constructed (__init__), the scheduler thread started.    *)
(***************************************************************************)
Row(i, t, rec, n, u) ==
    [id |-> i, message |-> "call", remind_time |-> Strftime(t), is_recurring |-> rec,
     recurring_interval |-> n, recurring_unit |-> u, is_completed |-> 0,
     created_at |-> Strftime(AddDelta(T0, -1, 0))]

Kinds == {"once_due", "once_later", "daily", "monthly_31", "yearly", "minutely", "unknown_unit"}

\* the rows explored for id i; remind_time is one minute before or after T0.
\* "unknown_unit" is a row whose recurring_unit is none of Units (the column is
\* unconstrained TEXT): the else branch of update_recurring_reminder.
RowOf(kind, i) ==
    LET due == AddDelta(T0, 0, -60)
    IN  CASE kind = "once_due"     -> Row(i, due, 0, NULL, NULL)
          [] kind = "once_later"   -> Row(i, AddDelta(T0, 0, 60), 0, NULL, NULL)
          [] kind = "daily"        -> Row(i, due, 1, Some(1), Some("days"))
          [] kind = "monthly_31"   -> Row(i, due, 1, Some(1), Some("months"))
          [] kind = "yearly"       -> Row(i, due, 1, Some(12), Some("months"))
          [] kind = "minutely"     -> Row(i, due, 1, Some(1), Some("minutes"))
          [] kind = "unknown_unit" -> Row(i, due, 1, Some(1), Some("fortnights"))

CalcOff == [phase |-> "off"]

Init ==
    /\ \E k \in [Ids -> Kinds] : db = [i \in Ids |-> RowOf(k[i], i)]
    /\ reminder_queue = <<>>
    /\ reminder_active = TRUE
    /\ timer_running = TRUE
    /\ reminders_list = load_reminders(db)
    /\ clk = 0
    /\ pc = "while"
    /\ now = <<>>
    /\ reminders = <<>>
    /\ idx = 1
    /\ pending = NoFn
    /\ cpc = "idle"
    /\ reminder = NoItem
    /\ cycle = 0
    /\ errs = 0
    /\ outcomes = <<>>
    /\ pushLog = <<>>
    /\ shown = <<>>
    /\ calc = CalcOff
    /\ upc = "idle"
    /\ reminder_id = 0
    /\ ops = 0
    /\ completedByUser = {}
    /\ tickMark = 0

(***************************************************************************)
(* The scheduler thread: check_reminders.                                  *)
(***************************************************************************)
\* Except without the try: the exception ends the thread
ExceptUnhandled(where) ==
    /\ outcomes' = [outcomes EXCEPT ![cycle] = where]
    /\ pc' = "done"

\* the exception handler of the while body: print, then time.sleep(10)
Except(where) ==
    /\ outcomes' = [outcomes EXCEPT ![cycle] = where]
    /\ pc' = "sleep10"

\* a store operation raises sqlite3.Error
StoreError ==
    /\ errs < MaxErrors
    /\ errs' = errs + 1

\* while self.reminder_active: the flag is set, a pass begins
SEnter ==
    /\ pc = "while"
    /\ reminder_active
    /\ cycle < MaxCycles
    /\ cycle' = cycle + 1
    /\ outcomes' = Append(outcomes, "running")
    /\ pc' = "lookup"
    /\ UNCHANGED <<db, reminder_queue, clk, now, reminders, idx, pending, errs,
                   pushLog, calc>>
    /\ UNCHANGED mainVars
    /\ UNCHANGED userVars

\* SExit that leaves only once the queue has been emptied
SExitWhenQueueEmpty ==
    /\ pc = "while"
    /\ ~reminder_active
    /\ reminder_queue = <<>>
    /\ pc' = "done"
    /\ UNCHANGED <<db, reminder_queue, clk, now, reminders, idx, pending, errs,
                   cycle, outcomes, pushLog, calc>>
    /\ UNCHANGED mainVars
    /\ UNCHANGED userVars

\* while self.reminder_active: the flag is cleared, the thread ends
SExit ==
    /\ pc = "while"
    /\ ~reminder_active
    /\ pc' = "done"
    /\ UNCHANGED <<db, reminder_queue, clk, now, reminders, idx, pending, errs,
                   cycle, outcomes, pushLog, calc>>
    /\ UNCHANGED mainVars
    /\ UNCHANGED userVars

\* connect, cursor, now, SELECT, fetchall. Rebinding conn and cursor drops the
\* connection of the previous pass, and with it what that pass left uncommitted.
SLookup ==
    /\ pc = "lookup"
    /\ pending' = NoFn
    /\ now' = Strftime(ClockAt(clk))
    /\ reminders' = SelectDue(db, now')
    /\ idx' = 1
    /\ pc' = "for"
    /\ UNCHANGED <<db, reminder_queue, clk, errs, cycle, outcomes, pushLog, calc>>
    /\ UNCHANGED mainVars
    /\ UNCHANGED userVars

\* sqlite3.connect raises (conn and cursor keep their old values), or
\* cursor.execute(SELECT) raises on the new connection
SLookupFail ==
    /\ pc = "lookup"
    /\ StoreError
    /\ \E stage \in {"connect", "select"} :
          /\ pending' = IF stage = "connect" THEN pending ELSE NoFn
          /\ now' = IF stage = "connect" THEN now ELSE Strftime(ClockAt(clk))
    /\ Except("lookup")
    /\ UNCHANGED <<db, reminder_queue, clk, reminders, idx, cycle, pushLog, calc>>
    /\ UNCHANGED mainVars
    /\ UNCHANGED userVars

\* QueueItem taken after the row was resolved: the row as the UPDATE leaves it
QueueItemResolved(row) ==
    IF Truthy(row.is_recurring)
    THEN LET out == update_recurring_reminder(row)
         IN  IF out.kind = "execute" THEN [row EXCEPT !.remind_time = out.new_time]
             ELSE row
    ELSE [row EXCEPT !.is_completed = 1]

\* the item put on the queue for a fetched row: the row itself
QueueItem(row) == row

\* for reminder in reminders: self.reminder_queue.put(reminder)
SPut ==
    /\ pc = "for"
    /\ idx <= Len(reminders)
    /\ reminder_queue' = Append(reminder_queue, QueueItem(reminders[idx]))
    /\ pushLog' = Append(pushLog, [cycle |-> cycle, row |-> QueueItem(reminders[idx])])
    /\ pc' = "resolve"
    /\ UNCHANGED <<db, clk, now, reminders, idx, pending, errs, cycle, outcomes, calc>>
    /\ UNCHANGED mainVars
    /\ UNCHANGED userVars

\* the uncommitted writes that survive conn.close(): none
AfterClose(writes) == NoFn

\* SClose whose conn.close() commits what the connection has written
SCloseCommits ==
    /\ pc = "for"
    /\ idx > Len(reminders)
    /\ db' = View(db, pending)
    /\ pending' = NoFn
    /\ outcomes' = [outcomes EXCEPT ![cycle] = "ok"]
    /\ pc' = "sleep60"
    /\ UNCHANGED <<reminder_queue, clk, now, reminders, idx, errs, cycle,
                   pushLog, calc>>
    /\ UNCHANGED mainVars
    /\ UNCHANGED userVars

\* the for loop is exhausted: conn.close(), then time.sleep(60)
SClose ==
    /\ pc = "for"
    /\ idx > Len(reminders)
    /\ pending' = AfterClose(pending)
    /\ outcomes' = [outcomes EXCEPT ![cycle] = "ok"]
    /\ pc' = "sleep60"
    /\ UNCHANGED <<db, reminder_queue, clk, now, reminders, idx, errs, cycle,
                   pushLog, calc>>
    /\ UNCHANGED mainVars
    /\ UNCHANGED userVars

\* if reminder[3]: self.update_recurring_reminder(cursor, reminder), no error
SRecurring ==
    /\ pc = "resolve"
    /\ Truthy(reminders[idx].is_recurring)
    /\ LET out == update_recurring_reminder(reminders[idx])
       IN  \/ /\ out.kind = "execute"
              /\ pending' = UpdateRemindTime(db, pending, reminders[idx].id, out.new_time)
              /\ idx' = idx + 1
              /\ pc' = "for"
              /\ UNCHANGED <<errs, outcomes>>
           \/ /\ out.kind = "return"
              /\ idx' = idx + 1
              /\ pc' = "for"
              /\ UNCHANGED <<pending, errs, outcomes>>
           \/ /\ out.kind = "raise"
              /\ Except("resolve")
              /\ UNCHANGED <<pending, idx, errs>>
           \/ /\ out.kind = "execute"
              /\ StoreError
              /\ Except("resolve")
              /\ UNCHANGED <<pending, idx>>
    /\ UNCHANGED <<db, reminder_queue, clk, now, reminders, cycle, pushLog, calc>>
    /\ UNCHANGED mainVars
    /\ UNCHANGED userVars

\* else: cursor.execute("UPDATE reminders SET is_completed = 1 WHERE id = ?")
SOneShot ==
    /\ pc = "resolve"
    /\ ~Truthy(reminders[idx].is_recurring)
    /\ \/ /\ pending' = UpdateCompleted(db, pending, reminders[idx].id)
          /\ pc' = "commit"
          /\ UNCHANGED <<errs, outcomes>>
       \/ /\ StoreError
          /\ Except("resolve")
          /\ UNCHANGED pending
    /\ UNCHANGED <<db, reminder_queue, clk, now, reminders, idx, cycle, pushLog, calc>>
    /\ UNCHANGED mainVars
    /\ UNCHANGED userVars

\* Commit that leaves the writes out
CommitNothing(committed, writes) == committed

\* the committed rows after conn.commit(): the connection's writes are applied
Commit(committed, writes) == View(committed, writes)

\* SCommit whose failing commit has already applied the writes
SCommitFailsAfterWriting ==
    /\ pc = "commit"
    /\ \/ /\ db' = View(db, pending)
          /\ pending' = NoFn
          /\ idx' = idx + 1
          /\ pc' = "for"
          /\ UNCHANGED <<errs, outcomes>>
       \/ /\ errs < MaxErrors
          /\ errs' = errs + 1
          /\ outcomes' = [outcomes EXCEPT ![cycle] = "resolve"]
          /\ pc' = "sleep10"
          /\ db' = View(db, pending)
          /\ UNCHANGED <<pending, idx>>
    /\ UNCHANGED <<reminder_queue, clk, now, reminders, cycle, pushLog, calc>>
    /\ UNCHANGED mainVars
    /\ UNCHANGED userVars

\* conn.commit() after the completion UPDATE
SCommit ==
    /\ pc = "commit"
    /\ \/ /\ db' = Commit(db, pending)
          /\ pending' = NoFn
          /\ idx' = idx + 1
          /\ pc' = "for"
          /\ UNCHANGED <<errs, outcomes>>
       \/ /\ StoreError
          /\ Except("resolve")
          /\ UNCHANGED <<db, pending, idx>>
    /\ UNCHANGED <<reminder_queue, clk, now, reminders, cycle, pushLog, calc>>
    /\ UNCHANGED mainVars
    /\ UNCHANGED userVars

\* time.sleep(60) returns: one period has passed
SWake60 ==
    /\ pc = "sleep60"
    /\ clk' = clk + 1
    /\ pc' = "while"
    /\ UNCHANGED <<db, reminder_queue, now, reminders, idx, pending, errs, cycle,
                   outcomes, pushLog, calc>>
    /\ UNCHANGED mainVars
    /\ UNCHANGED userVars

\* time.sleep(10) returns: the clock may or may not have reached the next step
SWake10 ==
    /\ pc = "sleep10"
    /\ \E d \in {0, 1} : clk' = clk + d
    /\ pc' = "while"
    /\ UNCHANGED <<db, reminder_queue, now, reminders, idx, pending, errs, cycle,
                   outcomes, pushLog, calc>>
    /\ UNCHANGED mainVars
    /\ UNCHANGED userVars

Scheduler ==
    \/ SEnter \/ SExit \/ SLookup \/ SLookupFail \/ SPut \/ SClose
    \/ SRecurring \/ SOneShot \/ SCommit \/ SWake60 \/ SWake10

(***************************************************************************)
(* The main thread: process_reminder_queue on the timer, on_close.         *)
(***************************************************************************)
\* EVT_TIMER: process_reminder_queue is entered
TimerFire ==
    /\ cpc = "idle"
    /\ timer_running
    /\ cpc' = "loop"
    /\ UNCHANGED <<db, reminder_queue, clk, errs, calc, reminder, shown,
                   reminders_list, timer_running, reminder_active, tickMark>>
    /\ UNCHANGED schedVars
    /\ UNCHANGED userVars

\* CEmpty that reloads the list before the handler returns
CEmptyRefreshes ==
    /\ cpc = "loop"
    /\ reminder_queue = <<>>
    /\ cpc' = "idle"
    /\ reminder' = NoItem
    /\ tickMark' = 0
    /\ reminders_list' = load_reminders(db)
    /\ UNCHANGED <<db, reminder_queue, clk, errs, calc, shown,
                   timer_running, reminder_active>>
    /\ UNCHANGED schedVars
    /\ UNCHANGED userVars

\* while not self.reminder_queue.empty(): the queue is empty, the handler returns
CEmpty ==
    /\ cpc = "loop"
    /\ reminder_queue = <<>>
    /\ cpc' = "idle"
    /\ reminder' = NoItem
    /\ tickMark' = 0
    /\ UNCHANGED <<db, reminder_queue, clk, errs, calc, shown, reminders_list,
                   timer_running, reminder_active>>
    /\ UNCHANGED schedVars
    /\ UNCHANGED userVars

\* CGet that takes an item only while the scheduler sleeps after a good pass
CGetWhileSchedulerSleeps ==
    /\ cpc = "loop"
    /\ reminder_queue # <<>>
    /\ pc = "sleep60"
    /\ reminder' = Head(reminder_queue)
    /\ reminder_queue' = Tail(reminder_queue)
    /\ cpc' = "show"
    /\ tickMark' = IF reminder = NoItem THEN Len(pushLog) ELSE tickMark
    /\ UNCHANGED <<db, clk, errs, calc, shown, reminders_list, timer_running,
                   reminder_active>>
    /\ UNCHANGED schedVars
    /\ UNCHANGED userVars

\* reminder = self.reminder_queue.get_nowait()
CGet ==
    /\ cpc = "loop"
    /\ reminder_queue # <<>>
    /\ reminder' = Head(reminder_queue)
    /\ reminder_queue' = Tail(reminder_queue)
    /\ cpc' = "show"
    /\ tickMark' = IF reminder = NoItem THEN Len(pushLog) ELSE tickMark
    /\ UNCHANGED <<db, clk, errs, calc, shown, reminders_list, timer_running,
                   reminder_active>>
    /\ UNCHANGED schedVars
    /\ UNCHANGED userVars

\* self.show_reminder(reminder): the dialog is shown and dismissed
CShow ==
    /\ cpc = "show"
    /\ shown' = Append(shown, reminder)
    /\ cpc' = "load"
    /\ UNCHANGED <<db, reminder_queue, clk, errs, calc, reminder, reminders_list,
                   timer_running, reminder_active, tickMark>>
    /\ UNCHANGED schedVars
    /\ UNCHANGED userVars

\* CLoad that returns to the loop without reloading the list
CLoadKeepsList ==
    /\ cpc = "load"
    /\ cpc' = "loop"
    /\ UNCHANGED <<db, reminder_queue, clk, errs, calc, reminder, shown,
                   reminders_list, timer_running, reminder_active, tickMark>>
    /\ UNCHANGED schedVars
    /\ UNCHANGED userVars

\* self.load_reminders(), on the main thread's connection
CLoad ==
    /\ cpc = "load"
    /\ reminders_list' = load_reminders(db)
    /\ cpc' = "loop"
    /\ UNCHANGED <<db, reminder_queue, clk, errs, calc, reminder, shown,
                   timer_running, reminder_active, tickMark>>
    /\ UNCHANGED schedVars
    /\ UNCHANGED userVars

\* OnClose that leaves the timer running
OnCloseLeavesTimer ==
    /\ cpc = "idle"
    /\ upc = "idle"
    /\ reminder_active
    /\ reminder_active' = FALSE
    /\ UNCHANGED <<db, reminder_queue, clk, errs, calc, cpc, reminder, shown,
                   reminders_list, tickMark, timer_running>>
    /\ UNCHANGED schedVars
    /\ UNCHANGED userVars

\* on_close: clear the flag, join the thread for at most one second, stop the
\* timer, close the connection, destroy the window. The window cannot be
\* closed while a modal dialog of a handler is open.
OnClose ==
    /\ cpc = "idle"
    /\ upc = "idle"
    /\ reminder_active
    /\ reminder_active' = FALSE
    /\ timer_running' = FALSE
    /\ UNCHANGED <<db, reminder_queue, clk, errs, calc, cpc, reminder, shown,
                   reminders_list, tickMark>>
    /\ UNCHANGED schedVars
    /\ UNCHANGED userVars

Consumer == TimerFire \/ CEmpty \/ CGet \/ CShow \/ CLoad

Next == Scheduler \/ Consumer \/ OnClose

Spec == Init /\ [][Next]_vars

(***************************************************************************)
(* The calculator on its own: update_recurring_reminder applied to a row   *)
(* drawn from a bounded set of base instants, intervals and units.         *)
(***************************************************************************)
\* wx.SpinCtrl(..., min=1, max=365): the largest interval the dialog accepts
SpinMax == 365

CalcBases ==
    {DT(2024, 1, 31, 12, 0, 0),    DT(2023, 12, 31, 23, 59, 59),
     DT(2024, 2, 28, 23, 59, 0),   DT(2023, 2, 28, 23, 59, 0),
     DT(2024, 2, 29, 8, 30, 15),   DT(2024, 12, 15, 0, 0, 0),
     DT(2100, 2, 28, 23, 0, 0),    DT(2000, 2, 28, 23, 30, 0),
     DT(2024, 3, 30, 10, 0, 0),    DT(2024, 10, 31, 6, 45, 0)}

CalcIntervals == (1..MaxInterval) \cup {SpinMax}

CalcUnits == Units \cup {"fortnights"}

InitCalc ==
    /\ db = NoFn
    /\ reminder_queue = <<>>
    /\ reminder_active = TRUE
    /\ timer_running = TRUE
    /\ reminders_list = <<>>
    /\ clk = 0
    /\ pc = "while"
    /\ now = <<>>
    /\ reminders = <<>>
    /\ idx = 1
    /\ pending = NoFn
    /\ cpc = "idle"
    /\ reminder = NoItem
    /\ cycle = 0
    /\ errs = 0
    /\ outcomes = <<>>
    /\ pushLog = <<>>
    /\ shown = <<>>
    /\ upc = "idle"
    /\ reminder_id = 0
    /\ ops = 0
    /\ completedByUser = {}
    /\ tickMark = 0
    /\ \E base \in CalcBases, n \in CalcIntervals, u \in CalcUnits :
          calc = [phase |-> "input", reminder |-> Row(1, base, 1, Some(n), Some(u))]

\* update_recurring_reminder(cursor, calc.reminder)
CalcApply ==
    /\ calc.phase = "input"
    /\ calc' = [phase |-> "done", reminder |-> calc.reminder,
                out |-> update_recurring_reminder(calc.reminder)]
    /\ UNCHANGED <<db, reminder_queue, clk, errs>>
    /\ UNCHANGED schedVars
    /\ UNCHANGED mainVars
    /\ UNCHANGED userVars

NextCalc == CalcApply

SpecCalc == InitCalc /\ [][NextCalc]_vars

(***************************************************************************)
(* Properties of the calculator (checked under SpecCalc).                  *)
(***************************************************************************)
\* a < b on datetimes
DTLess(a, b) ==
    LET x == <<a.year, a.month, a.day, a.hour, a.minute, a.second>>
        y == <<b.year, b.month, b.day, b.hour, b.minute, b.second>>
    IN  \E i \in 1..6 : x[i] < y[i] /\ \A j \in 1..(i - 1) : x[j] = y[j]

\* seconds from the first instant of year y0 to dt (dt.year >= y0), counted
\* year by year and month by month
DaysOfYearsBefore(y, y0) ==
    365 * (y - y0) + Cardinality({z \in y0..(y - 1) : DaysInMonth(z, 2) = 29})

RECURSIVE DaysOfMonthsBefore(_, _)
DaysOfMonthsBefore(y, m) ==
    IF m <= 1 THEN 0 ELSE DaysOfMonthsBefore(y, m - 1) + DaysInMonth(y, m - 1)

Elapsed(dt, y0) ==
    (DaysOfYearsBefore(dt.year, y0) + DaysOfMonthsBefore(dt.year, dt.month) + dt.day - 1)
        * 86400
    + dt.hour * 3600 + dt.minute * 60 + dt.second

UnitSeconds(u) ==
    CASE u = "minutes" -> 60
      [] u = "hours"   -> 3600
      [] u = "days"    -> 86400
      [] u = "weeks"   -> 604800

CalcDone == calc.phase = "done"

CalcBase == Strptime(calc.reminder.remind_time)

CalcN == calc.reminder.recurring_interval[1]

CalcUnit == calc.reminder.recurring_unit[1]

CalcNew == Strptime(calc.out.new_time)

\* C7: for every base instant, every interval >= 1 and every unit of Units,
\* update_recurring_reminder computes a new time, and it is strictly greater
\* than the base remind_time.
C7_NewTimeGreater ==
    (CalcDone /\ CalcUnit \in Units /\ CalcN >= 1)
        => (calc.out.kind = "execute" /\ DTLess(CalcBase, CalcNew))

C8Month == ((CalcBase.month - 1 + CalcN) % 12) + 1

C8Year == CalcBase.year + ((CalcBase.month - 1 + CalcN) \div 12)

C10_FixedUnitsExact ==
    (CalcDone /\ CalcUnit \in {"minutes", "hours", "days", "weeks"} /\ CalcN >= 1)
        => /\ calc.out.kind = "execute"
           /\ ~Raised(CalcNew)
           /\ CalcNew.year >= CalcBase.year
           /\ Elapsed(CalcNew, CalcBase.year)
                = Elapsed(CalcBase, CalcBase.year) + CalcN * UnitSeconds(CalcUnit)

\* a one-minute step from 2023-12-31 23:59:59 has carried into the hour, the
\* day, the month and the year
C10_Witness ==
    /\ CalcDone
    /\ CalcUnit = "minutes"
    /\ CalcN = 1
    /\ calc.out.kind = "execute"
    /\ CalcBase = DT(2023, 12, 31, 23, 59, 59)
    /\ CalcNew = DT(2024, 1, 1, 0, 0, 59)

(***************************************************************************)
(* Properties of the scheduler and the consumer (checked under Spec).      *)
(***************************************************************************)
\* the positions in pushLog of the puts of pass c
PushesIn(c) == {k \in 1..Len(pushLog) : pushLog[k].cycle = c}

\* the puts of pass c for reminder id i
PushesOf(c, i) == {k \in PushesIn(c) : pushLog[k].row.id = i}

\* no pass so far has taken the exception handler
NoFailureSoFar == \A c \in 1..Len(outcomes) : outcomes[c] \in {"running", "ok"}

\* the last pass has ended without an exception and sleeps its period
PassEndedOk == pc = "sleep60"

SupportedRecurring(r) ==
    /\ Truthy(r.is_recurring)
    /\ r.recurring_unit # NULL
    /\ r.recurring_unit[1] \in Units

\* C1: as long as no pass fails, a due occurrence (a reminder id with one
\* remind_time value) is put on the queue once and presented once: it is not
\* put again by a later pass.
C1_OncePerOccurrence ==
    NoFailureSoFar =>
        \A j, k \in 1..Len(pushLog) :
            (j < k /\ pushLog[j].row.id = pushLog[k].row.id)
                => pushLog[j].row.remind_time # pushLog[k].row.remind_time

\* C2: when a pass has ended without error, every recurring reminder with a
\* supported unit that was due in it holds, in the committed table the next
\* pass reads, the new remind_time computed from the old one, is still not
\* completed, and was put on the queue once in that pass.
C2_RearmPersisted ==
    PassEndedOk =>
        \A k \in 1..Len(reminders) :
            SupportedRecurring(reminders[k]) =>
                /\ update_recurring_reminder(reminders[k]).kind = "execute"
                /\ db[reminders[k].id].remind_time
                     = update_recurring_reminder(reminders[k]).new_time
                /\ db[reminders[k].id].is_completed = 0
                /\ Cardinality(PushesOf(cycle, reminders[k].id)) = 1

\* C3: a one-shot reminder that was due in a pass that ended without error
\* was put on the queue once in that pass, is completed in the committed
\* table, and is put by no later pass.
C3_OneShotCompleted ==
    \A k \in 1..Len(pushLog) :
        LET p == pushLog[k]
        IN  (~Truthy(p.row.is_recurring) /\ outcomes[p.cycle] = "ok")
                => /\ db[p.row.id].is_completed = 1
                   /\ Cardinality(PushesOf(p.cycle, p.row.id)) = 1
                   /\ \A j \in 1..Len(pushLog) :
                         pushLog[j].cycle > p.cycle => pushLog[j].row.id # p.row.id

\* a later pass has made its lookup after a pass completed a one-shot reminder
C3_Witness ==
    /\ pc = "for"
    /\ \E k \in 1..Len(pushLog) :
          /\ ~Truthy(pushLog[k].row.is_recurring)
          /\ outcomes[pushLog[k].cycle] = "ok"
          /\ pushLog[k].cycle < cycle
          /\ TextLE(pushLog[k].row.remind_time, now)

\* C4: when the processing of one due reminder fails in a pass, every other
\* reminder of that pass's due list is still put on the queue in that pass,
\* and a one-shot one is completed.
C4_SiblingsStillProcessed ==
    (pc = "sleep10" /\ outcomes[cycle] = "resolve") =>
        \A k \in 1..Len(reminders) :
            k # idx =>
                /\ PushesOf(cycle, reminders[k].id) # {}
                /\ ~Truthy(reminders[k].is_recurring)
                      => db[reminders[k].id].is_completed = 1

\* C5: a pass whose lookup fails puts nothing and writes nothing, goes to the
\* ten-second sleep and from there to the loop test, which starts the next
\* pass while the flag is set; the thread ends only with the flag cleared.
C5_LookupFailureBacksOff ==
    /\ [][(pc = "lookup" /\ pc' \notin {"lookup", "for"})
            => /\ pc' = "sleep10"
               /\ db' = db
               /\ reminder_queue' = reminder_queue
               /\ pushLog' = pushLog
               /\ DOMAIN pending' \subseteq DOMAIN pending]_vars
    /\ [][(pc = "sleep10" /\ pc' # "sleep10") => pc' = "while"]_vars
    /\ [][(pc = "while" /\ pc' # "while" /\ reminder_active)
            => (pc' = "lookup" /\ cycle' = cycle + 1)]_vars
    /\ [](pc = "done" => ~reminder_active)
    /\ [](\A c \in 1..Len(outcomes) : outcomes[c] = "lookup" => PushesIn(c) = {})

\* a new pass has begun after a pass whose lookup failed
C5_Witness ==
    /\ pc = "lookup"
    /\ cycle >= 2
    /\ outcomes[cycle - 1] = "lookup"
    /\ reminder_active

\* C6: every put carries the row exactly as the lookup of the pass read it
\* from the committed table (not completed, remind_time not yet advanced),
\* and happens before any UPDATE of that reminder: a write is only ever
\* issued for the reminder whose row was the last put of the pass.
C6_SnapshotBeforeUpdate ==
    /\ [][(pc = "lookup" /\ pc' = "for")
            => \A k \in 1..Len(reminders') : reminders'[k] = db[reminders'[k].id]]_vars
    /\ [][pushLog' # pushLog
            => LET it == pushLog'[Len(pushLog')].row
               IN  /\ it = reminders[idx]
                   /\ it.is_completed = 0
                   /\ it.id \notin DOMAIN pending
                   /\ reminder_queue' = Append(reminder_queue, it)
                   /\ pending' = pending
                   /\ db' = db]_vars
    /\ [][\A i \in Ids :
            (i \in DOMAIN pending' /\ (i \notin DOMAIN pending \/ pending'[i] # pending[i]))
                => /\ pushLog # <<>>
                   /\ pushLog[Len(pushLog)] = [cycle |-> cycle, row |-> reminders[idx]]
                   /\ reminders[idx].id = i]_vars

\* a re-arm UPDATE is pending for a reminder whose queued snapshot still
\* carries the old remind_time
C6_Witness ==
    \E k \in 1..Len(pushLog) :
        /\ pushLog[k].cycle = cycle
        /\ pushLog[k].row.id \in DOMAIN pending
        /\ pending[pushLog[k].row.id].remind_time # pushLog[k].row.remind_time
        /\ pushLog[k].row.is_completed = 0

\* C9: a monthly reminder based on January 31 with interval 1 that was due in
\* a pass without store error holds, once the pass has ended, a valid
\* remind_time in February of the same year.
C9_Jan31FallsInFebruary ==
    (pc \in {"sleep60", "sleep10"} /\ errs = 0) =>
        \A k \in 1..Len(reminders) :
            LET r    == reminders[k]
                base == Strptime(r.remind_time)
                t    == Strptime(db[r.id].remind_time)
            IN  (/\ Truthy(r.is_recurring)
                 /\ r.recurring_unit = Some("months")
                 /\ r.recurring_interval = Some(1)
                 /\ base.month = 1 /\ base.day = 31)
                    => (~Raised(t) /\ t.year = base.year /\ t.month = 2)

(***************************************************************************)
(* Unsupported units (C11 under SpecCalc, C12 under Spec).                 *)
(***************************************************************************)
\* C11: for a recurring_unit that is none of Units the re-arm step ends with
\* an error outcome the pass can observe; it does not return as if nothing
\* had happened.
C11_UnknownUnitIsError ==
    (CalcDone /\ CalcUnit \notin Units) => calc.out.kind = "raise"

\* a recurring row whose unit update_recurring_reminder does not know
UnsupportedRecurring(r) == Truthy(r.is_recurring) /\ ~SupportedRecurring(r)

\* C12: the step that resolves a due recurring reminder with an unsupported
\* unit writes nothing (neither remind_time nor is_completed, committed or
\* pending), does not enter the exception handler and moves on to the next
\* reminder of the due list; the reminders of the pass already resolved that
\* way are still as the lookup read them, and a pass never fails at one.
C12_UnsupportedUnitSkipped ==
    /\ [][(pc = "resolve" /\ UnsupportedRecurring(reminders[idx]))
            => /\ pc' \in {"resolve", "for"}
               /\ pc' = "for" => idx' = idx + 1
               /\ db' = db
               /\ pending' = pending
               /\ outcomes' = outcomes
               /\ reminders' = reminders]_vars
    /\ [](\A k \in 1..Len(reminders) :
            (UnsupportedRecurring(reminders[k]) /\ pc \notin {"lookup", "while", "done"})
                => /\ db[reminders[k].id] = reminders[k]
                   /\ reminders[k].id \notin DOMAIN pending)
    /\ []((pc = "sleep10" /\ outcomes[cycle] = "resolve")
            => ~UnsupportedRecurring(reminders[idx]))

\* the reminder after one with an unsupported unit has been put in the same pass
C12_Witness ==
    /\ pc = "resolve"
    /\ idx >= 2
    /\ UnsupportedRecurring(reminders[idx - 1])
    /\ pushLog[Len(pushLog)] = [cycle |-> cycle, row |-> reminders[idx]]
    /\ outcomes[cycle] = "running"
    /\ db[reminders[idx - 1].id].is_completed = 0

(***************************************************************************)
(* The user's reminder handlers on the main thread: on_add_reminder,       *)
(* on_edit_reminder, on_complete_reminder, with ReminderDialog.get_data.   *)
(***************************************************************************)
\* what the unit ComboBox can hold: one of its five choices (the Russian words
\* for minutes, hours, days, weeks, months, written here in Latin letters),
\* nothing, or a text the user typed (the box is editable)
UnitTexts == {"minuty", "chasy", "dni", "nedeli", "mesyatsy", "", "fortnights"}

\* get_data: unit_map.get(self.unit.GetValue(), "days")
unit_map(text) ==
    CASE text = "minuty"   -> "minutes"
      [] text = "chasy"    -> "hours"
      [] text = "dni"      -> "days"
      [] text = "nedeli"   -> "weeks"
      [] text = "mesyatsy" -> "months"
      [] OTHER             -> "days"

\* get_data that stores the text of the ComboBox and the value of the SpinCtrl
\* as they are
get_data_Unmapped(form) ==
    [message            |-> form.message,
     remind_time        |-> Strftime(DT(form.year, form.month, form.day,
                                        form.hour, form.minute, 0)),
     is_recurring       |-> IF form.recurring THEN 1 ELSE 0,
     recurring_interval |-> Some(form.interval),
     recurring_unit     |-> Some(form.unit)]

\* ReminderDialog.get_data: (message, remind_time, is_recurring, interval, unit).
\* The date picker always holds a valid date; the seconds are written as 00.
get_data(form) ==
    [message            |-> form.message,
     remind_time        |-> Strftime(DT(form.year, form.month, form.day,
                                        form.hour, form.minute, 0)),
     is_recurring       |-> IF form.recurring THEN 1 ELSE 0,
     recurring_interval |-> IF form.recurring THEN Some(form.interval) ELSE NULL,
     recurring_unit     |-> IF form.recurring THEN Some(unit_map(form.unit)) ELSE NULL]

\* the dialog as the user has filled it in when OK is pressed
Form(t, rec, n, text) ==
    [message |-> "call", year |-> t.year, month |-> t.month, day |-> t.day,
     hour |-> t.hour, minute |-> t.minute, recurring |-> rec, interval |-> n,
     unit |-> text]

\* the forms explored: one minute before or after T0; one-shot (the SpinCtrl
\* at its initial 1, the ComboBox empty), or recurring with interval 1 and the
\* unit chosen or typed
Forms ==
    {Form(AddDelta(T0, 0, d), FALSE, 1, "") : d \in {-60, 60}}
        \cup {Form(AddDelta(T0, 0, -60), TRUE, 1, text) :
                 text \in {"mesyatsy", "fortnights"}}

\* the window exists: on_close has not run
WindowOpen == reminder_active

\* the id AUTOINCREMENT gives the next inserted row
NextId(rows) == IF DOMAIN rows = {} THEN 1
                ELSE (CHOOSE m \in DOMAIN rows : \A j \in DOMAIN rows : j <= m) + 1

\* INSERT INTO reminders (message, remind_time, is_recurring,
\* recurring_interval, recurring_unit): is_completed and created_at take
\* their defaults
Insert(rows, data, t) ==
    LET i == NextId(rows)
    IN  [j \in DOMAIN rows \cup {i} |->
            IF j = i
            THEN [id |-> i, message |-> data.message, remind_time |-> data.remind_time,
                  is_recurring |-> data.is_recurring,
                  recurring_interval |-> data.recurring_interval,
                  recurring_unit |-> data.recurring_unit,
                  is_completed |-> 0, created_at |-> t]
            ELSE rows[j]]

\* UpdateData that also sets is_completed = 0
UpdateDataReopens(rows, i, data) ==
    [j \in DOMAIN rows |->
        IF j = i
        THEN [rows[j] EXCEPT !.message = data.message,
                             !.remind_time = data.remind_time,
                             !.is_recurring = data.is_recurring,
                             !.recurring_interval = data.recurring_interval,
                             !.recurring_unit = data.recurring_unit,
                             !.is_completed = 0]
        ELSE rows[j]]

\* UPDATE reminders SET message, remind_time, is_recurring, recurring_interval,
\* recurring_unit WHERE id = i
UpdateData(rows, i, data) ==
    [j \in DOMAIN rows |->
        IF j = i
        THEN [rows[j] EXCEPT !.message = data.message,
                             !.remind_time = data.remind_time,
                             !.is_recurring = data.is_recurring,
                             !.recurring_interval = data.recurring_interval,
                             !.recurring_unit = data.recurring_unit]
        ELSE rows[j]]

\* a write of the main thread's connection goes through when the scheduler's
\* connection holds no uncommitted write (otherwise the database is locked)
MainCanWrite == pending = NoFn

\* on_add_reminder: the dialog is confirmed, INSERT, commit, load_reminders
OnAddReminder ==
    /\ WindowOpen
    /\ upc = "idle"
    /\ cpc = "idle"
    /\ ops < MaxUserOps
    /\ MainCanWrite
    /\ NextId(db) \in Ids
    /\ \E form \in Forms :
          db' = Insert(db, get_data(form), Strftime(ClockAt(clk)))
    /\ reminders_list' = load_reminders(db')
    /\ ops' = ops + 1
    /\ UNCHANGED <<reminder_queue, clk, errs, calc, cpc, reminder, shown,
                   timer_running, reminder_active, upc, reminder_id, completedByUser, tickMark>>
    /\ UNCHANGED schedVars

\* on_edit_reminder up to dlg.ShowModal(): a row of the list is selected, its
\* id is read from the list, the dialog opens
OnEditOpen ==
    /\ WindowOpen
    /\ upc = "idle"
    /\ cpc = "idle"
    /\ ops < MaxUserOps
    /\ \E selected \in 1..Len(reminders_list) :
          reminder_id' = reminders_list[selected]
    /\ upc' = "edit"
    /\ ops' = ops + 1
    /\ UNCHANGED <<db, reminder_queue, clk, errs, calc, completedByUser>>
    /\ UNCHANGED schedVars
    /\ UNCHANGED mainVars

\* on_edit_reminder after OK: get_data, UPDATE ... WHERE id = reminder_id,
\* commit, load_reminders
OnEditOk ==
    /\ upc = "edit"
    /\ cpc = "idle"
    /\ MainCanWrite
    /\ \E form \in Forms : db' = UpdateData(db, reminder_id, get_data(form))
    /\ reminders_list' = load_reminders(db')
    /\ upc' = "idle"
    /\ UNCHANGED <<reminder_queue, clk, errs, calc, cpc, reminder, shown,
                   timer_running, reminder_active, reminder_id, ops, completedByUser, tickMark>>
    /\ UNCHANGED schedVars

\* on_edit_reminder after Cancel: dlg.Destroy()
OnEditCancel ==
    /\ upc = "edit"
    /\ cpc = "idle"
    /\ upc' = "idle"
    /\ UNCHANGED <<db, reminder_queue, clk, errs, calc, reminder_id, ops, completedByUser>>
    /\ UNCHANGED schedVars
    /\ UNCHANGED mainVars

\* on_complete_reminder: UPDATE reminders SET is_completed = 1 for the selected
\* row of the list, commit, load_reminders
OnCompleteReminder ==
    /\ WindowOpen
    /\ upc = "idle"
    /\ cpc = "idle"
    /\ ops < MaxUserOps
    /\ MainCanWrite
    /\ \E selected \in 1..Len(reminders_list) :
          LET i == reminders_list[selected]
          IN  /\ db' = [db EXCEPT ![i].is_completed = 1]
              /\ completedByUser' = completedByUser \cup {i}
    /\ reminders_list' = load_reminders(db')
    /\ ops' = ops + 1
    /\ UNCHANGED <<reminder_queue, clk, errs, calc, cpc, reminder, shown,
                   timer_running, reminder_active, upc, reminder_id, tickMark>>
    /\ UNCHANGED schedVars

User == OnAddReminder \/ OnEditOpen \/ OnEditOk \/ OnEditCancel \/ OnCompleteReminder

\* the table at start: empty, or one row an earlier session added through the dialog
InitUser ==
    /\ \/ db = NoFn
       \/ \E kind \in {"once_due", "daily"} : db = [i \in {1} |-> RowOf(kind, i)]
    /\ reminder_queue = <<>>
    /\ reminder_active = TRUE
    /\ timer_running = TRUE
    /\ reminders_list = load_reminders(db)
    /\ clk = 0
    /\ pc = "while"
    /\ now = <<>>
    /\ reminders = <<>>
    /\ idx = 1
    /\ pending = NoFn
    /\ cpc = "idle"
    /\ reminder = NoItem
    /\ cycle = 0
    /\ errs = 0
    /\ outcomes = <<>>
    /\ pushLog = <<>>
    /\ shown = <<>>
    /\ calc = CalcOff
    /\ upc = "idle"
    /\ reminder_id = 0
    /\ ops = 0
    /\ completedByUser = {}
    /\ tickMark = 0

NextUser == Scheduler \/ Consumer \/ OnClose \/ User

SpecUser == InitUser /\ [][NextUser]_vars

(***************************************************************************)
(* Properties of the table under the user's handlers (checked under        *)
(* SpecUser).                                                              *)
(***************************************************************************)
\* C13: in every reachable state a recurring reminder is completed only if
\* on_complete_reminder completed it: no pass of check_reminders has set
\* is_completed on it.
C13_RecurringCompletedOnlyByUser ==
    \A i \in DOMAIN db :
        (Truthy(db[i].is_recurring) /\ db[i].is_completed = 1) => i \in completedByUser

(***************************************************************************)
(* Properties of the queue and the consumer (checked under Spec).          *)
(***************************************************************************)
\* the number of entries of a sequence of rows that carry id i
CountOf(rows, i) == Cardinality({k \in 1..Len(rows) : rows[k].id = i})

\* the item the consumer has taken from the queue and not yet presented
InHand == IF cpc = "show" THEN <<reminder>> ELSE <<>>

\* the items put so far are, in put order, those presented, then the one in
\* the consumer's hand, then those still queued
DeliveredInOrder ==
    [k \in 1..Len(pushLog) |-> pushLog[k].row] = shown \o InHand \o reminder_queue

\* the pass has ended and the consumer has emptied the queue
Quiescent ==
    /\ pc \in {"sleep60", "sleep10"}
    /\ reminder_queue = <<>>
    /\ cpc = "idle"

\* C14: whatever the interleaving of puts and ticks, the items are presented
\* in put order, none twice and none skipped; and with the timer running and
\* no store error, once a pass has ended and the queue is drained every
\* reminder id has been presented for that pass as many times as it appears
\* in the pass's due list.
C14_PresentedOncePerDueListing ==
    /\ DeliveredInOrder
    /\ (Quiescent /\ timer_running /\ errs = 0)
          => /\ Len(shown) = Len(pushLog)
             /\ \A i \in Ids :
                   Cardinality(PushesOf(cycle, i)) = CountOf(reminders, i)

\* the consumer is at its loop test and has taken nothing in this tick
TickFindsQueueEmpty ==
    /\ cpc = "loop"
    /\ reminder = NoItem
    /\ reminder_queue = <<>>

\* C15: the step the consumer takes when its tick finds the queue empty ends
\* the handler normally: nothing is presented, the list is not reloaded, and
\* the queue and the table (committed rows and the scheduler's open writes)
\* stay as they are.
C15_EmptyTickIsNoOp ==
    [][(TickFindsQueueEmpty /\ cpc' # cpc)
          => /\ cpc' = "idle"
             /\ shown' = shown
             /\ reminders_list' = reminders_list
             /\ reminder_queue' = reminder_queue
             /\ db' = db
             /\ pending' = pending]_vars

\* a tick finds the queue empty while the list on screen is out of date: a
\* pass has completed a reminder that the list still shows
C15_Witness ==
    /\ TickFindsQueueEmpty
    /\ reminders_list # load_reminders(db)

\* C16: a tick consumes exactly the items that are queued when it starts to
\* take them: every item it takes was put before it took its first (one put
\* while the tick is presenting is left for a later tick), and the tick does
\* not end before it has presented all of those.
C16_TickTakesWhatWasQueued ==
    /\ [][(cpc = "loop" /\ cpc' = "show") => Len(shown) + 1 <= tickMark']_vars
    /\ [][(cpc = "loop" /\ cpc' = "idle") => Len(shown) >= tickMark]_vars

(***************************************************************************)
(* Properties of the scheduler's loop (checked under Spec).                *)
(***************************************************************************)
\* C17: the scheduler tests the flag when a pass would start, and a sleep
\* does not outlast the flag: with the flag cleared the scheduler leaves its
\* inter-pass sleep without the period having passed (the clock still shows
\* the step at which the sleep began; the ten-second sleep is shorter than a
\* step of the clock and is not measured).
C17_StopInterruptsSleep ==
    /\ [][(pc = "while" /\ ~reminder_active /\ pc' # pc) => pc' = "done"]_vars
    /\ [][(pc = "sleep60" /\ ~reminder_active /\ pc' # pc) => clk' = clk]_vars

\* the instant t is not later than the instant u (both as datetimes)
NotLater(t, u) == ~DTLess(u, t)

\* C18: the lookup of a pass takes `now` from the clock once, and what it
\* returns is exactly the committed rows that are not completed and whose
\* remind_time, read as an instant, is not later than `now`: each such row
\* once, as it is in the table, and no other; `now` and the list then stay
\* as they are until the next lookup.
C18_LookupReturnsExactlyDue ==
    /\ [][(pc = "lookup" /\ pc' = "for")
            => /\ now' = Strftime(ClockAt(clk))
               /\ {reminders'[k].id : k \in 1..Len(reminders')}
                    = {i \in DOMAIN db :
                          /\ db[i].is_completed = 0
                          /\ NotLater(Strptime(db[i].remind_time), ClockAt(clk))}
               /\ \A k \in 1..Len(reminders') : reminders'[k] = db[reminders'[k].id]
               /\ \A j, k \in 1..Len(reminders') :
                     reminders'[j].id = reminders'[k].id => j = k]_vars
    /\ [][(now' # now \/ reminders' # reminders) => pc = "lookup"]_vars

\* a lookup has left out a completed row and has returned a row whose
\* remind_time is the very second of `now`
C18_Witness ==
    /\ pc = "for"
    /\ idx = 1
    /\ \E i \in DOMAIN db : db[i].is_completed = 1
    /\ \E k \in 1..Len(reminders) : reminders[k].remind_time = now

\* row b differs from row a in nothing but remind_time and is_completed
SameButTimeAndCompleted(a, b) ==
    [b EXCEPT !.remind_time = a.remind_time, !.is_completed = a.is_completed] = a

\* what a pass may have done to row a, giving row b: a recurring reminder
\* keeps its is_completed, a one-shot one its remind_time, both all the rest
AllowedChange(a, b) ==
    /\ SameButTimeAndCompleted(a, b)
    /\ Truthy(a.is_recurring) => b.is_completed = a.is_completed
    /\ ~Truthy(a.is_recurring) => b.remind_time = a.remind_time

\* id i is in the due list of the running pass
InDueList(i) == \E k \in 1..Len(reminders) : reminders[k].id = i

\* C19: a step of a pass never adds or deletes a row; a row it changes, in
\* the committed table or in its open transaction, is a row of the pass's due
\* list and changes in remind_time only (recurring) or in is_completed only
\* (one-shot); and a row it puts on the queue is a row of the due list, not
\* completed and with remind_time not later than the pass's `now`.
C19_PassTouchesOnlyDueRows ==
    /\ [][/\ DOMAIN db' = DOMAIN db
          /\ \A i \in DOMAIN db :
                db'[i] # db[i] => (InDueList(i) /\ AllowedChange(db[i], db'[i]))
          /\ \A i \in DOMAIN pending' :
                /\ i \in DOMAIN db
                /\ pending'[i] # db[i]
                      => (InDueList(i) /\ AllowedChange(db[i], pending'[i]))]_vars
    /\ [][pushLog' # pushLog
            => LET row == pushLog'[Len(pushLog')].row
               IN  /\ InDueList(row.id)
                   /\ row.is_completed = 0
                   /\ NotLater(Strptime(row.remind_time), Strptime(now))]_vars

\* the first pass has completed a due one-shot reminder and has neither put
\* nor changed the reminder that is due a minute later
C19_Witness ==
    /\ pc = "sleep60"
    /\ cycle = 1
    /\ \E i, j \in DOMAIN db :
          /\ db[i] = [RowOf("once_due", i) EXCEPT !.is_completed = 1]
          /\ db[j] = RowOf("once_later", j)
          /\ PushesOf(1, j) = {}

(***************************************************************************)
(* The table as the dialog and the scheduler alone fill it: from an empty  *)
(* table, on_add_reminder, on_edit_reminder and the passes of              *)
(* check_reminders, until on_close.                                        *)
(***************************************************************************)
InitEntry ==
    /\ InitUser
    /\ db = NoFn

NextEntry ==
    Scheduler \/ OnClose \/ OnAddReminder \/ OnEditOpen \/ OnEditOk \/ OnEditCancel

SpecEntry == InitEntry /\ [][NextEntry]_vars

\* the recurrence columns of row r agree: recurring with a positive interval
\* and a unit of Units, or not recurring with both columns NULL
RecurrenceWellFormed(r) ==
    IF Truthy(r.is_recurring)
    THEN /\ r.recurring_interval # NULL
         /\ r.recurring_interval[1] \in Nat \ {0}
         /\ r.recurring_unit # NULL
         /\ r.recurring_unit[1] \in Units
    ELSE r.recurring_interval = NULL /\ r.recurring_unit = NULL

\* C20: in every state reached through on_add_reminder, on_edit_reminder and
\* passes of the scheduler, every stored reminder is recurring exactly when
\* its interval is a positive integer and its unit is one of Units, and has
\* both columns NULL when it is not recurring.
C20_RecurrenceColumnsAgree ==
    \A i \in DOMAIN db :
        /\ db[i].is_recurring \in {0, 1}
        /\ RecurrenceWellFormed(db[i])
        /\ i \in DOMAIN pending => RecurrenceWellFormed(pending[i])

\* a reminder that was put on the queue as a one-shot one has since been
\* edited into a recurring one with a typed unit, which is stored as days
C20_Witness ==
    \E i \in DOMAIN db, k \in 1..Len(pushLog) :
        /\ pushLog[k].row.id = i
        /\ ~Truthy(pushLog[k].row.is_recurring)
        /\ Truthy(db[i].is_recurring)
        /\ db[i].recurring_interval = Some(1)
        /\ db[i].recurring_unit = Some("days")

(***************************************************************************)
(* Independence of the two threads (checked under Spec).                   *)
(***************************************************************************)
\* C21: neither thread waits for the other. Wherever the scheduler is (in a
\* pass, failed or not, in its backoff or in its sleep), a tick can start
\* while the timer runs, and a started tick can take the next queued item,
\* present it and reload the list; wherever the consumer is, the scheduler
\* can put the next reminder of its due list (the put never blocks).
C21_ThreadsNeverWait ==
    /\ (cpc = "idle" /\ timer_running) => ENABLED TimerFire
    /\ (cpc = "loop" /\ reminder_queue # <<>>) => ENABLED CGet
    /\ cpc = "show" => ENABLED CShow
    /\ cpc = "load" => ENABLED CLoad
    /\ (pc = "for" /\ idx <= Len(reminders)) => ENABLED SPut

\* the consumer presents an item of a pass that has failed, while the
\* scheduler sits in its backoff and more is queued behind
C21_Witness ==
    /\ pc = "sleep10"
    /\ outcomes[cycle] = "resolve"
    /\ cpc = "show"
    /\ reminder_queue # <<>>
    /\ \E k \in PushesIn(cycle) : pushLog[k].row = reminder

(***************************************************************************)
(* Completion and presentation under the user's handlers (checked under    *)
(* SpecUser).                                                              *)
(***************************************************************************)
\* C22: no step (of a pass, of on_edit_reminder, of any other handler, of a
\* tick) takes a committed is_completed from 1 back to 0 or removes the row;
\* a lookup returns no row that is completed in the table at that moment;
\* and every put takes its row from the due list of the running pass, so no
\* pass that looks up after the completion puts the reminder again.
C22_CompletedIsMonotone ==
    /\ [][\A i \in DOMAIN db :
            db[i].is_completed = 1 => (i \in DOMAIN db' /\ db'[i].is_completed = 1)]_vars
    /\ [][(pc = "lookup" /\ pc' = "for")
            => \A k \in 1..Len(reminders') : db[reminders'[k].id].is_completed = 0]_vars
    /\ [][pushLog' # pushLog
            => pushLog'[Len(pushLog')] = [cycle |-> cycle, row |-> reminders[idx]]]_vars

\* a reminder that a pass completed as a one-shot has since been edited (the
\* edit made it recurring), is still completed, and the next pass has made
\* its lookup without it
C22_Witness ==
    /\ pc = "for"
    /\ \E i \in DOMAIN db, k \in 1..Len(pushLog) :
          /\ pushLog[k].row.id = i
          /\ pushLog[k].cycle < cycle
          /\ ~Truthy(pushLog[k].row.is_recurring)
          /\ Truthy(db[i].is_recurring)
          /\ db[i].is_completed = 1
          /\ TextLE(db[i].remind_time, now)
          /\ ~InDueList(i)

(***************************************************************************)
(* A store error while one due reminder is being resolved.                 *)
(***************************************************************************)
\* the row is resolved by a store write (UPDATE, and commit for a one-shot)
ResolvedByWrite(r) ==
    \/ ~Truthy(r.is_recurring)
    \/ update_recurring_reminder(r).kind = "execute"

\* the last put of pass c: the row that pass was resolving when it ended
LastPutOf(c) ==
    pushLog[CHOOSE k \in PushesIn(c) : \A j \in PushesIn(c) : j <= k].row

\* C23: when a pass ends in the handler while resolving a row that is
\* resolved by a store write, the committed row is still the row as the pass
\* fetched it (is_completed 0, remind_time unchanged); and the due list of the
\* next pass holds that same row again.
C23_FailedRowUnchangedAndDueAgain ==
    /\ (/\ pc = "sleep10"
        /\ outcomes[cycle] = "resolve"
        /\ ResolvedByWrite(reminders[idx]))
          => db[reminders[idx].id] = reminders[idx]
    /\ (/\ cycle > 1
        /\ outcomes[cycle - 1] = "resolve"
        /\ ResolvedByWrite(LastPutOf(cycle - 1))
        /\ pc \in {"for", "resolve", "commit", "sleep60"})
          => \E j \in 1..Len(reminders) : reminders[j] = LastPutOf(cycle - 1)

\* the commit of a one-shot failed in the first pass, and the second pass has
\* fetched the row again
C23_Witness ==
    /\ cycle = 2
    /\ pc = "resolve"
    /\ outcomes[1] = "resolve"
    /\ errs = 1
    /\ ~Truthy(reminders[idx].is_recurring)
    /\ reminders[idx] = LastPutOf(1)
    /\ db[reminders[idx].id].is_completed = 0

(***************************************************************************)
(* The shape of one tick of process_reminder_queue.                        *)
(***************************************************************************)
\* C24: the handler moves only idle -> loop -> (show -> load -> loop)* -> idle;
\* the queue shrinks only by the handler taking its head at "loop"; the item
\* taken is the one presented next, presentations are appended in the order
\* taken, and each is followed by one reload of the list before the handler
\* tests the queue again. A tick therefore makes as many reloads as
\* presentations.
C24_TickShowsThenReloadsEachItem ==
    /\ [][cpc' # cpc => <<cpc, cpc'>> \in {<<"idle", "loop">>, <<"loop", "show">>,
                                           <<"show", "load">>, <<"load", "loop">>,
                                           <<"loop", "idle">>}]_vars
    /\ [][Len(reminder_queue') < Len(reminder_queue)
            => /\ cpc = "loop" /\ cpc' = "show"
               /\ reminder' = Head(reminder_queue)
               /\ reminder_queue' = Tail(reminder_queue)]_vars
    /\ [][(cpc = "loop" /\ cpc' = "show")
            => Len(reminder_queue') < Len(reminder_queue)]_vars
    /\ [][shown' # shown
            => cpc = "show" /\ cpc' = "load" /\ shown' = Append(shown, reminder)]_vars
    /\ [][(cpc = "show" /\ cpc' = "load") => shown' = Append(shown, reminder)]_vars
    /\ [][(cpc = "load" /\ cpc' = "loop")
            => reminders_list' = load_reminders(db) /\ shown' = shown]_vars
    /\ [][reminders_list' # reminders_list => cpc = "load" /\ cpc' = "loop"]_vars

\* one tick has taken and presented two items: its first take was made when
\* one put had happened, and it is reloading after its second presentation
C24_Witness ==
    /\ cpc = "load"
    /\ tickMark = 1
    /\ Len(shown) = 2
    /\ shown[1] = pushLog[1].row
    /\ shown[2] = pushLog[2].row
    /\ reminders_list # load_reminders(db)

(***************************************************************************)
(* Shutdown under fair scheduling of the scheduler thread: the operating   *)
(* system keeps running the thread, and time.sleep returns. Nothing is     *)
(* assumed about the main thread.                                          *)
(***************************************************************************)
\* the actions of the scheduler that call neither the store lookup nor
\* update_recurring_reminder
SchedulerSteps ==
    \/ SEnter \/ SExit \/ SPut \/ SClose \/ SOneShot \/ SCommit \/ SWake60 \/ SWake10

\* The two calls come back: the lookup returns the due list or raises
\* (SLookup has no guard but the position), and update_recurring_reminder
\* returns or raises (its outcome is one of execute, return and raise, and
\* SRecurring has a disjunct for each). Each step of SLookup, SLookupFail
\* and SRecurring leaves the position, and within Next the steps below are
\* the steps of these three actions.
CallsReturn ==
    \/ /\ pc = "lookup"
       /\ pc' \in {"for", "sleep10"}
    \/ /\ pc = "resolve"
       /\ Truthy(reminders[idx].is_recurring)
       /\ pc' \in {"for", "sleep10"}

\* the tables explored under fairness: each row is a due one-shot, a daily
\* reminder or the monthly reminder of the 31st
FairKinds == {"once_due", "daily", "monthly_31"}

InitFair == Init /\ \E k \in [Ids -> FairKinds] : db = [i \in Ids |-> RowOf(k[i], i)]

SpecFair ==
    InitFair /\ [][Next]_vars /\ WF_vars(SchedulerSteps) /\ WF_pc(CallsReturn)

\* C25: once reminder_active is cleared no pass begins; the thread ends only
\* at the test of the while loop, never inside a pass; and from any position
\* (inside a pass, in the sleep of a minute, in the sleep of the handler) the
\* thread eventually ends.
C25_StopEndsScheduler ==
    /\ [][~reminder_active => cycle' = cycle]_vars
    /\ [][(pc # "done" /\ pc' = "done") => (pc = "while" /\ ~reminder_active)]_vars
    /\ (~reminder_active /\ pc \in {"lookup", "for", "resolve", "commit"}) ~> (pc = "done")
    /\ (~reminder_active /\ pc = "sleep60") ~> (pc = "done")
    /\ (~reminder_active /\ pc = "sleep10") ~> (pc = "done")

\* the flag is cleared while a pass is between a completion UPDATE and its
\* commit, with a further row still to be handled
C25_Witness ==
    /\ ~reminder_active
    /\ pc = "commit"
    /\ idx < Len(reminders)

(***************************************************************************)
(* on_close and the tick timer.                                            *)
(***************************************************************************)
\* C26: on_close can run whenever the main thread is in no handler, at every
\* position of the scheduler thread (the join is bounded); once it has run
\* the timer is stopped and the main thread is in no tick, so that no step of
\* process_reminder_queue can be taken (no tick, no take, no presentation),
\* whatever the scheduler still puts on the queue.
C26_CloseStopsPresentation ==
    /\ (cpc = "idle" /\ upc = "idle" /\ reminder_active) => ENABLED OnClose
    /\ ~reminder_active =>
          /\ ~timer_running
          /\ cpc = "idle"
          /\ ~ENABLED TimerFire
          /\ ~ENABLED CGet
          /\ ~ENABLED CShow

\* the window is closed, the scheduler thread is inside a pass and has just
\* put an item, and the queue holds items that were never presented
C26_Witness ==
    /\ ~reminder_active
    /\ ~timer_running
    /\ pc = "resolve"
    /\ cpc = "idle"
    /\ reminder_queue # <<>>
    /\ Len(shown) < Len(pushLog)

(***************************************************************************)
(* What a pass commits.                                                    *)
(***************************************************************************)
\* a one-shot listed after position k of the due list was completed and committed
OneShotCommittedAfter(k) ==
    \E j \in (k + 1)..Len(reminders) :
        /\ ~Truthy(reminders[j].is_recurring)
        /\ db[reminders[j].id].is_completed = 1

\* C27: the pass is at its commit only right after the completion UPDATE of
\* a one-shot; after conn.close() the connection holds no writes; and when a
\* pass has ended (normally or in the handler) the committed row of a
\* recurring reminder of its due list whose UPDATE was to be executed carries
\* the new remind_time exactly when a one-shot listed after it was completed
\* in that pass, and is the row as fetched otherwise.
C27_RearmCommittedOnlyByLaterOneShot ==
    /\ pc = "commit" =>
          /\ ~Truthy(reminders[idx].is_recurring)
          /\ reminders[idx].id \in DOMAIN pending
          /\ pending[reminders[idx].id].is_completed = 1
    /\ pc = "sleep60" => pending = NoFn
    /\ pc \in {"sleep60", "sleep10"} =>
          \A k \in 1..Len(reminders) :
              LET r   == reminders[k]
                  out == update_recurring_reminder(r)
              IN  (Truthy(r.is_recurring) /\ out.kind = "execute") =>
                      IF OneShotCommittedAfter(k)
                      THEN db[r.id] = [r EXCEPT !.remind_time = out.new_time]
                      ELSE db[r.id] = r

\* a pass has ended normally; the daily reminder listed first is re-armed in
\* the committed table because the one-shot after it was completed
C27_Witness ==
    /\ pc = "sleep60"
    /\ Len(reminders) = 2
    /\ Truthy(reminders[1].is_recurring)
    /\ update_recurring_reminder(reminders[1]).kind = "execute"
    /\ ~Truthy(reminders[2].is_recurring)
    /\ db[reminders[2].id].is_completed = 1
    /\ db[reminders[1].id].remind_time # reminders[1].remind_time

(***************************************************************************)
(* Completed and never presented.                                          *)
(***************************************************************************)
\* C28: a completed one-shot reminder is presented in the end. When the
\* window has been closed and the scheduler thread has ended nothing can
\* happen any more, so by then every reminder a pass has completed has been
\* presented.
C28_CompletedIsPresentedInTheEnd ==
    (~reminder_active /\ pc = "done") =>
        \A i \in DOMAIN db :
            (db[i].is_completed = 1 /\ \E k \in 1..Len(pushLog) : pushLog[k].row.id = i)
                => \E k \in 1..Len(shown) : shown[k].id = i

C30_NotPresentedAfterUserCompleted ==
    [][shown' # shown => shown'[Len(shown')].id \notin completedByUser]_vars

====
